---- MODULE Spec2Model ----
(***************************************************************************)
(* Gemelnet history sync (funds/gemelnet_sync_v2.py) over the entity store *)
(* of funds/models.py (Company, Fund, FundSnapshot).                       *)
(*                                                                         *)
(* A run of sync_gemelnet_data_with_history is one database transaction    *)
(* (@transaction.atomic).  The run is stepped: one request of the fetch    *)
(* loop, the grouping, the pre-load of the snapshot index, the head of a   *)
(* fund group (latest record, company, fund), one period record of a       *)
(* group, and the exit of the atomic block.                                *)
(***************************************************************************)
EXTENDS Integers, Sequences, FiniteSets, TLC

(***************************************************************************)
(* JSON values of an upstream row and values of database columns.          *)
(***************************************************************************)
Null == [t |-> "null"]
Str(s) == [t |-> "str", s |-> s]
Num(n) == [t |-> "int", v |-> n]
Dec(n) == [t |-> "dec", v |-> n]

\* Python's str(): str(None) is the text 'None'.
PyStr(v) == IF v = Null THEN "None" ELSE v.s

\* Python truth of an identifier, a name or a report period.
Truthy(v) ==
    /\ v # Null
    /\ (v.t = "str" => v.s # "")
    /\ (v.t = "int" => v.v # 0)

(***************************************************************************)
(* Bounds and program constants.                                           *)
(***************************************************************************)
MaxRecs == 2

BatchSize == 1000
RateMaxDigits == 6
AssetsMaxDigits == 15
DecimalPlaces == 2

(***************************************************************************)
(* Upstream rows.  Identifiers and names are opaque texts; the decimal     *)
(* columns are texts spelled character by character, parsed by             *)
(* safe_decimal.  LIQUID_ASSETS_PERCENT stands for the columns the sync    *)
(* does not read (liquid assets, the exposures, the fees).                 *)
(***************************************************************************)
Row(f, p, l, c, y, a, m) ==
    [FUND_ID |-> f, REPORT_PERIOD |-> p,
     MANAGING_CORPORATION_LEGAL_ID |-> l, MANAGING_CORPORATION |-> c,
     AVG_ANNUAL_YIELD_TRAILING_5YRS |-> y, TOTAL_ASSETS |-> a, MONTHLY_YIELD |-> m,
     FUND_NAME |-> Str("Fund"), AVG_ANNUAL_YIELD_TRAILING_3YRS |-> Null,
     LIQUID_ASSETS_PERCENT |-> Null]

WithLiquid(row, q) == [row EXCEPT !.LIQUID_ASSETS_PERCENT = q]
With3Yr(row, q) == [row EXCEPT !.AVG_ANNUAL_YIELD_TRAILING_3YRS = q]
WithFundName(row, n) == [row EXCEPT !.FUND_NAME = n]

F1 == Str("101")
F2 == Str("102")
P1 == Num(202507)
P2 == Num(202508)
L1 == Str("520")
CoA == Str("Alpha")
CoB == Str("Beta")
T10 == Str(<<"1", "0">>)
T20 == Str(<<"2", "0">>)
T500 == Str(<<"5", "0", "0">>)
T900 == Str(<<"9", "0", "0">>)
TEmpty == Str(<<>>)
TBad == Str(<<"n", "/", "a">>)
TBig == Str(<<"1", "2", "3", "4", "5">>)

\* One fund over two periods, a restated period, a second fund.
CatHistory ==
    { Row(F1, P1, L1, CoA, T10, T500, Null),
      Row(F1, P2, L1, CoA, T20, T900, Null),
      WithLiquid(Row(F1, P2, L1, CoA, T10, T500, T10), T20),
      Row(F2, P1, L1, CoA, T10, T500, Null) }

\* Rows without a fund identifier or without a report period.
CatIdentity ==
    { Row(Null, P1, L1, CoA, T10, T500, Null),
      Row(Str(""), P1, L1, CoA, T10, T500, Null),
      Row(F1, Null, L1, CoA, T20, T900, Null),
      Row(F1, P1, L1, CoA, T10, T500, Null) }

\* Rows without a company legal id or name, and a renamed company.
CatCompany ==
    { Row(F1, P2, Null, CoA, T10, T500, Null),
      Row(F1, P2, Str(""), CoA, T10, T500, Null),
      Row(F2, P1, L1, Null, T10, T500, Null),
      Row(F1, P1, L1, CoA, T10, T500, Null),
      Row(F2, P2, L1, CoB, T10, T500, Null) }

\* Decimal columns that are empty, not a number, or too wide for the column.
CatDecimal ==
    { Row(F1, P1, L1, CoA, T10, T500, TBad),
      Row(F1, P2, L1, CoA, TBad, T500, Null),
      Row(F1, P1, L1, CoA, T10, T500, TBig),
      Row(F1, P2, L1, CoA, TEmpty, T500, T10),
      WithLiquid(Row(F2, P1, L1, CoA, T10, T500, Null), T20) }

Catalogues == {CatHistory, CatIdentity, CatCompany, CatDecimal}

RECURSIVE SeqsUpTo(_, _)
SeqsUpTo(S, n) ==
    IF n = 0 THEN {<<>>}
    ELSE LET shorter == SeqsUpTo(S, n - 1)
         IN shorter \cup {Append(q, x) : q \in {r \in shorter : Len(r) = n - 1}, x \in S}

Datasets(cat) == SeqsUpTo(cat, MaxRecs)

(***************************************************************************)
(* safe_decimal: None and '' give the default (None); any other text goes  *)
(* to Decimal(str(value)).  Decimal raises decimal.InvalidOperation on a   *)
(* text that is no number; InvalidOperation is an ArithmeticError, so the  *)
(* handler for (ValueError, TypeError) does not catch it.                  *)
(***************************************************************************)
DigitVal ==
    ("0" :> 0) @@ ("1" :> 1) @@ ("2" :> 2) @@ ("3" :> 3) @@ ("4" :> 4) @@
    ("5" :> 5) @@ ("6" :> 6) @@ ("7" :> 7) @@ ("8" :> 8) @@ ("9" :> 9)

RECURSIVE DigitsValue(_, _)
DigitsValue(cs, n) ==
    IF n = 0 THEN 0 ELSE 10 * DigitsValue(cs, n - 1) + DigitVal[cs[n]]

IsNumber(cs) == Len(cs) > 0 /\ \A i \in 1..Len(cs) : cs[i] \in DOMAIN DigitVal

safe_decimal(value) ==
    IF value = Null \/ value.s = <<>> THEN [ok |-> TRUE, val |-> Null]
    ELSE IF IsNumber(value.s)
         THEN [ok |-> TRUE, val |-> Dec(DigitsValue(value.s, Len(value.s)))]
         ELSE [ok |-> FALSE, val |-> Null]

RECURSIVE NumDigits(_)
NumDigits(n) == IF n < 10 THEN 1 ELSE 1 + NumDigits(n \div 10)

\* DecimalField(max_digits, decimal_places): a value is stored only if its
\* integer part has at most max_digits - decimal_places digits.
FitsColumn(val, max_digits) ==
    val = Null \/ NumDigits(val.v) <= max_digits - DecimalPlaces

(***************************************************************************)
(* organize_by_fund: a dict from str(FUND_ID) to the rows of that fund, in *)
(* first-appearance order of the keys and fetch order inside a group.      *)
(***************************************************************************)
IndexOfKey(m, k) ==
    IF \E i \in 1..Len(m) : m[i].fund_id = k
    THEN CHOOSE i \in 1..Len(m) : m[i].fund_id = k
    ELSE 0

RECURSIVE organize_from(_, _, _)
organize_from(records, i, m) ==
    IF i > Len(records) THEN m
    ELSE LET record == records[i]
             fund_id == PyStr(record.FUND_ID)
             at == IndexOfKey(m, fund_id)
         IN IF fund_id = "" THEN organize_from(records, i + 1, m)
            ELSE IF at = 0
                 THEN organize_from(records, i + 1,
                          Append(m, [fund_id |-> fund_id, recs |-> <<record>>]))
                 ELSE organize_from(records, i + 1,
                          [m EXCEPT ![at].recs = Append(@, record)])

organize_by_fund(records) == organize_from(records, 1, <<>>)

(***************************************************************************)
(* max(fund_periods, key=lambda x: x.get('REPORT_PERIOD', 0)): the first   *)
(* row with the greatest key.  With two rows or more every key is compared *)
(* and comparing None raises TypeError.                                    *)
(***************************************************************************)
LatestRecord(recs) ==
    IF Len(recs) > 1 /\ \E i \in 1..Len(recs) : recs[i].REPORT_PERIOD = Null
    THEN [ok |-> FALSE, rec |-> recs[1]]
    ELSE IF Len(recs) = 1 THEN [ok |-> TRUE, rec |-> recs[1]]
    ELSE LET best == CHOOSE i \in 1..Len(recs) :
                        /\ \A j \in 1..Len(recs) :
                              recs[j].REPORT_PERIOD.v <= recs[i].REPORT_PERIOD.v
                        /\ \A j \in 1..(i - 1) :
                              recs[j].REPORT_PERIOD.v < recs[i].REPORT_PERIOD.v
         IN [ok |-> TRUE, rec |-> recs[best]]

(***************************************************************************)
(* The entity store: three tables, each a set of rows.  A foreign key is   *)
(* the key of the row it refers to.                                        *)
(***************************************************************************)
EmptyStore == [companies |-> {}, funds |-> {}, snapshots |-> {}]

NoStats ==
    [total_fetched |-> 0, unique_funds |-> 0, companies_created |-> 0,
     funds_created |-> 0, snapshots_created |-> 0, snapshots_skipped |-> 0,
     errors |-> 0]

\* Mutant: the pre-load finds nothing.
SnapshotIndexEmpty(store) == {}

\* FundSnapshot.objects.values_list('fund__fund_id', 'report_period')
SnapshotIndex(store) == {<<s.fund, s.report_period>> : s \in store.snapshots}

\* Mutant: Company.objects.update_or_create, as the single-period sync does.
CompanyUpdateOrCreate(store, legal_id, name) ==
    LET old == {c \in store.companies : c.legal_id = legal_id}
    IN [store |-> [store EXCEPT !.companies =
                      (@ \ old) \cup {[legal_id |-> legal_id, name |-> name.s]}],
        created |-> old = {}]

\* Company.objects.get_or_create(legal_id=..., defaults={'name': ...})
CompanyGetOrCreate(store, legal_id, name) ==
    IF \E c \in store.companies : c.legal_id = legal_id
    THEN [store |-> store, created |-> FALSE]
    ELSE [store |-> [store EXCEPT !.companies =
                        @ \cup {[legal_id |-> legal_id, name |-> name.s]}],
          created |-> TRUE]

\* Fund.objects.update_or_create(fund_id=fund_id, defaults=fund_data)
FundUpdateOrCreate(store, fund_id, fund_data) ==
    LET row == [fund_id |-> fund_id, name |-> fund_data.name.s,
                company |-> fund_data.company,
                return_rate |-> fund_data.return_rate,
                total_assets |-> fund_data.total_assets,
                latest_report_period |-> fund_data.latest_report_period]
        old == {f \in store.funds : f.fund_id = fund_id}
    IN [store |-> [store EXCEPT !.funds = (@ \ old) \cup {row}],
        created |-> old = {}]

\* unique_together = ['fund', 'report_period']
SnapshotUniqueViolated(store, fund_id, period) ==
    \E s \in store.snapshots : s.fund = fund_id /\ s.report_period = period

\* Mutant: the inserted pair is not added to the in-memory index.
IndexAddForgotten(existing, fund_id, period) == existing

\* the in-memory index after an insert: existing_snapshots.add(...)
IndexAdd(existing, fund_id, period) == existing \cup {<<fund_id, period>>}

(***************************************************************************)
(* The state a run works on: the store as the transaction sees it, the     *)
(* statistics, the in-memory index, whether the transaction is marked for  *)
(* rollback, and the last exception the per-group handler printed.         *)
(***************************************************************************)
Raise(c, exc) ==
    [c EXCEPT !.stats.errors = @ + 1, !.last_error = exc, !.go = FALSE]

\* Lines 153-197: latest record, company, fund.  go says whether the
\* period loop of the group is entered.
GroupHead(c, g) ==
    LET lr == LatestRecord(g.recs)
        latest_record == lr.rec
        company_legal_id == PyStr(latest_record.MANAGING_CORPORATION_LEGAL_ID)
        company_name == latest_record.MANAGING_CORPORATION
    IN IF ~lr.ok THEN Raise(c, "TypeError")
       ELSE IF company_legal_id = "" \/ ~Truthy(company_name)
       THEN [c EXCEPT !.stats.errors = @ + 1, !.go = FALSE]
       ELSE IF c.needs_rollback THEN Raise(c, "TransactionManagementError")
       ELSE
         LET co == CompanyGetOrCreate(c.store, company_legal_id, company_name)
             c1 == [c EXCEPT !.store = co.store,
                             !.stats.companies_created =
                                 IF co.created THEN @ + 1 ELSE @]
             rr == safe_decimal(latest_record.AVG_ANNUAL_YIELD_TRAILING_5YRS)
             ta == safe_decimal(latest_record.TOTAL_ASSETS)
             fund_data == [name |-> latest_record.FUND_NAME,
                           company |-> company_legal_id,
                           return_rate |-> rr.val, total_assets |-> ta.val,
                           latest_report_period |-> latest_record.REPORT_PERIOD]
             fu == FundUpdateOrCreate(c1.store, g.fund_id, fund_data)
         IN IF ~rr.ok \/ ~ta.ok THEN Raise(c1, "InvalidOperation")
            ELSE IF ~FitsColumn(rr.val, RateMaxDigits)
                    \/ ~FitsColumn(ta.val, AssetsMaxDigits)
            THEN Raise(c1, "DecimalOverflow")
            ELSE IF latest_record.FUND_NAME = Null
            THEN Raise(c1, "IntegrityError")
            ELSE [c1 EXCEPT !.store = fu.store,
                            !.stats.funds_created =
                                IF fu.created THEN @ + 1 ELSE @,
                            !.go = TRUE]

\* Mutant: a pair already stored is written again from the upstream row.
OnExistingOverwrite(c, row) ==
    [c EXCEPT !.store.snapshots =
                  {s \in @ : ~(s.fund = row.fund /\ s.report_period = row.report_period)}
                  \cup {row},
              !.stats.snapshots_skipped = @ + 1]

\* Mutant: a pair already in the index is counted as created.
OnExistingCounted(c, row) == [c EXCEPT !.stats.snapshots_created = @ + 1]

\* Lines 206-208: the pair is in the index: count it and go on.
OnExisting(c, row) == [c EXCEPT !.stats.snapshots_skipped = @ + 1]

\* Lines 211-231: the snapshot row built from one upstream row.  A column
\* that snapshot_data does not name is stored with its default, NULL
\* (models.py 318-325).
snapshot_data(fund_id, period_record) ==
    [fund |-> fund_id, report_period |-> period_record.REPORT_PERIOD.v,
     monthly_yield |-> safe_decimal(period_record.MONTHLY_YIELD).val,
     avg_annual_return_3yr |->
         safe_decimal(period_record.AVG_ANNUAL_YIELD_TRAILING_3YRS).val,
     avg_annual_return_5yr |->
         safe_decimal(period_record.AVG_ANNUAL_YIELD_TRAILING_5YRS).val,
     total_assets |-> safe_decimal(period_record.TOTAL_ASSETS).val,
     liquid_assets_percent |-> Null]

\* Lines 200-235 for one row of the group.  go says whether the loop goes
\* on to the next row of the group.
PeriodStep(c, fund_id, period_record) ==
    LET report_period == period_record.REPORT_PERIOD
        my == safe_decimal(period_record.MONTHLY_YIELD)
        a3 == safe_decimal(period_record.AVG_ANNUAL_YIELD_TRAILING_3YRS)
        a5 == safe_decimal(period_record.AVG_ANNUAL_YIELD_TRAILING_5YRS)
        ta == safe_decimal(period_record.TOTAL_ASSETS)
        row == snapshot_data(fund_id, period_record)
    IN IF ~Truthy(report_period) THEN c
       ELSE IF <<fund_id, report_period.v>> \in c.existing
       THEN OnExisting(c, row)
       ELSE IF ~my.ok \/ ~a3.ok \/ ~a5.ok \/ ~ta.ok
       THEN Raise(c, "InvalidOperation")
       ELSE IF c.needs_rollback THEN Raise(c, "TransactionManagementError")
       ELSE IF SnapshotUniqueViolated(c.store, fund_id, report_period.v)
       THEN [Raise(c, "IntegrityError") EXCEPT !.needs_rollback = TRUE]
       ELSE IF ~FitsColumn(my.val, RateMaxDigits)
               \/ ~FitsColumn(a3.val, RateMaxDigits)
               \/ ~FitsColumn(a5.val, RateMaxDigits)
               \/ ~FitsColumn(ta.val, AssetsMaxDigits)
       THEN [Raise(c, "DecimalOverflow") EXCEPT !.needs_rollback = TRUE]
       ELSE [c EXCEPT !.store.snapshots = @ \cup {row},
                      !.stats.snapshots_created = @ + 1,
                      !.existing = IndexAdd(@, fund_id, report_period.v)]

\* Exit of the atomic block when the function returns: commit, or roll back
\* when the transaction is marked for rollback.
AtomicExit(needs_rollback, before, now) == IF needs_rollback THEN before ELSE now

\* Mutant: the writes made before the termination stay in the store.
TerminatedKeepsWrites(before, now) == now

\* The process is terminated inside the atomic block: nothing was committed.
Terminated(before, now) == before

\* Mutant: a failed request ends the fetch loop with the rows fetched so far.
FetchSwallowed(before, now) == [pc |-> "organize", store |-> now]

\* The fetch raises: the exception leaves the function and the atomic block.
FetchRaises(before, now) == [pc |-> "failed", store |-> before]

(***************************************************************************)
(* One uninterrupted call on the rows `records` from the committed store   *)
(* `before`: lines 133-268 and the exit of the atomic block.               *)
(***************************************************************************)
RECURSIVE RunPeriods(_, _, _)
RunPeriods(c, g, i) ==
    IF i > Len(g.recs) THEN c
    ELSE LET n == PeriodStep(c, g.fund_id, g.recs[i])
         IN IF n.go THEN RunPeriods(n, g, i + 1) ELSE n

RunGroup(c, g) ==
    LET h == GroupHead([c EXCEPT !.go = TRUE], g)
    IN IF h.go THEN RunPeriods(h, g, 1) ELSE h

RECURSIVE RunGroups(_, _, _)
RunGroups(c, m, i) ==
    IF i > Len(m) THEN c ELSE RunGroups(RunGroup(c, m[i]), m, i + 1)

SyncAll(before, records) ==
    IF records = <<>> THEN [store |-> before, stats |-> NoStats]
    ELSE LET m == organize_by_fund(records)
             c0 == [store |-> before,
                    stats |-> [NoStats EXCEPT !.total_fetched = Len(records),
                                              !.unique_funds = Len(m)],
                    existing |-> SnapshotIndex(before),
                    needs_rollback |-> FALSE, last_error |-> "none", go |-> TRUE]
             c == RunGroups(c0, m, 1)
         IN [store |-> AtomicExit(c.needs_rollback, before, c.store),
             stats |-> c.stats]

(***************************************************************************)
(* State.                                                                  *)
(***************************************************************************)
VARIABLES
    catalogue,          \* the rows the upstream source can serve
    store,              \* the store as the running transaction sees it
    store0,             \* the committed store the run started from
    pc,                 \* position of the run
    dataset,            \* D: the rows the source serves to this run
    all_records,        \* fetch_gemelnet_data: rows fetched so far
    offset,             \* fetch_gemelnet_data: offset of the next request
    fund_records_map,   \* organize_by_fund's result
    existing_snapshots, \* the pre-loaded index
    gi,                 \* the fund group the loop is at
    ri,                 \* the row of that group the period loop is at
    stats,
    needs_rollback,     \* the transaction is marked for rollback
    last_error,         \* the exception last raised in the run
    result,             \* what the call returned
    mode,               \* fresh run, re-run on the same D, restart after a kill
    prev,               \* the run before a re-run or a restart
    call,               \* a call of one of the stand-alone functions
    runs                \* two runs working on one database at the same time

vars ==
    <<catalogue, store, store0, pc, dataset, all_records, offset,
      fund_records_map, existing_snapshots, gi, ri, stats, needs_rollback,
      last_error, result, mode, prev, call, runs>>

NoResult == [returned |-> FALSE, stats |-> NoStats]
NoPrev == [stats |-> NoStats, rolled_back |-> FALSE, from |-> EmptyStore]

Resting == {"idle", "done", "failed", "killed"}
Running == {"fetch", "organize", "preload", "groups", "periods"}

Ctx ==
    [store |-> store, stats |-> stats, existing |-> existing_snapshots,
     needs_rollback |-> needs_rollback, last_error |-> last_error, go |-> TRUE]

NoCall == [fn |-> "none"]
NoRuns == [db |-> EmptyStore]

\* No run of the history sync is in progress and none has happened.
SyncIdle ==
    /\ store = EmptyStore
    /\ store0 = EmptyStore
    /\ pc = "idle"
    /\ dataset = <<>>
    /\ all_records = <<>>
    /\ offset = 0
    /\ fund_records_map = <<>>
    /\ existing_snapshots = {}
    /\ gi = 0
    /\ ri = 0
    /\ stats = NoStats
    /\ needs_rollback = FALSE
    /\ last_error = "none"
    /\ result = NoResult
    /\ mode = "fresh"
    /\ prev = NoPrev

Init ==
    /\ catalogue \in Catalogues
    /\ SyncIdle
    /\ call = NoCall
    /\ runs = NoRuns

\* The call is over: its locals are gone.
DropLocals ==
    /\ all_records' = <<>>
    /\ offset' = 0
    /\ fund_records_map' = <<>>
    /\ existing_snapshots' = {}
    /\ gi' = 0
    /\ ri' = 0
    /\ stats' = NoStats

\* Entry of sync_gemelnet_data_with_history(limit=None): lines 104-132.
Begin(d, m, p) ==
    /\ dataset' = d
    /\ mode' = m
    /\ prev' = p
    /\ store0' = store
    /\ pc' = "fetch"
    /\ all_records' = <<>>
    /\ offset' = 0
    /\ fund_records_map' = <<>>
    /\ existing_snapshots' = {}
    /\ gi' = 0
    /\ ri' = 0
    /\ stats' = NoStats
    /\ needs_rollback' = FALSE
    /\ last_error' = "none"
    /\ result' = NoResult
    /\ UNCHANGED <<catalogue, call, runs, store>>

\* The caller is done with the outcome of the last call
\* (core/admin_utils.py reports it and redirects).
Acknowledge ==
    /\ pc \in {"done", "failed", "killed"}
    /\ pc' = "idle"
    /\ store0' = store
    /\ dataset' = <<>>
    /\ needs_rollback' = FALSE
    /\ last_error' = "none"
    /\ result' = NoResult
    /\ mode' = "fresh"
    /\ prev' = NoPrev
    /\ DropLocals
    /\ UNCHANGED <<catalogue, call, runs, store>>

StartRun ==
    /\ pc = "idle"
    /\ \E d \in Datasets(catalogue) : Begin(d, "fresh", NoPrev)

\* A second run right after a completed one, the source serving the same D.
Rerun ==
    /\ pc = "done"
    /\ Begin(dataset, "rerun",
             [stats |-> result.stats, rolled_back |-> needs_rollback,
              from |-> store0])

\* A new run after a terminated one, the source serving the same D.
Restart ==
    /\ pc = "killed"
    /\ Begin(dataset, "restart",
             [stats |-> stats, rolled_back |-> FALSE, from |-> store0])

\* One request of the fetch loop that the source answers (lines 25-53).  The
\* source serves the next rows of D, as many as it puts on this page, and
\* reports len(D) as total.
FetchPage ==
    /\ pc = "fetch"
    /\ LET served == Len(all_records)
           total == Len(dataset)
       IN \E n \in 0..(total - served) :
            /\ (n = 0) = (served = total)
            /\ LET records == SubSeq(dataset, served + 1, served + n)
                   fetched == all_records \o records
               IN IF records = <<>>
                  THEN /\ pc' = "organize"
                       /\ UNCHANGED <<all_records, offset>>
                  ELSE /\ all_records' = fetched
                       /\ IF Len(fetched) >= total
                          THEN pc' = "organize" /\ offset' = offset
                          ELSE pc' = "fetch" /\ offset' = offset + BatchSize
    /\ UNCHANGED <<catalogue, call, runs, store, store0, dataset, fund_records_map,
                   existing_snapshots, gi, ri, stats, needs_rollback,
                   last_error, result, mode, prev>>

\* One request that fails (lines 34, 38, 55-56): the exception leaves
\* sync_gemelnet_data_with_history through its handler (lines 248-250).
FetchFail ==
    /\ pc = "fetch"
    /\ LET out == FetchRaises(store0, store)
       IN pc' = out.pc /\ store' = out.store
    /\ last_error' = "FetchError"
    /\ UNCHANGED <<catalogue, call, runs, store0, dataset, all_records, offset,
                   fund_records_map, existing_snapshots, gi, ri, stats,
                   needs_rollback, result, mode, prev>>

\* Lines 133-141.
Organize ==
    /\ pc = "organize"
    /\ IF all_records = <<>>
       THEN /\ pc' = "done"
            /\ result' = [returned |-> TRUE, stats |-> stats]
            /\ DropLocals
       ELSE LET m == organize_by_fund(all_records)
            IN /\ pc' = "preload"
               /\ fund_records_map' = m
               /\ stats' = [stats EXCEPT !.total_fetched = Len(all_records),
                                         !.unique_funds = Len(m)]
               /\ UNCHANGED <<all_records, offset, existing_snapshots, gi, ri,
                              result>>
    /\ UNCHANGED <<catalogue, call, runs, store, store0, dataset, needs_rollback,
                   last_error, mode, prev>>

\* Lines 143-148.
Preload ==
    /\ pc = "preload"
    /\ existing_snapshots' = SnapshotIndex(store)
    /\ pc' = "groups"
    /\ gi' = 1
    /\ UNCHANGED <<catalogue, call, runs, store, store0, dataset, all_records, offset,
                   fund_records_map, ri, stats, needs_rollback, last_error,
                   result, mode, prev>>

Adopt(c) ==
    /\ store' = c.store
    /\ stats' = c.stats
    /\ existing_snapshots' = c.existing
    /\ needs_rollback' = c.needs_rollback
    /\ last_error' = c.last_error

\* Lines 153-197 for the group the loop is at.
ProcessGroupHead ==
    /\ pc = "groups"
    /\ gi <= Len(fund_records_map)
    /\ LET c == GroupHead(Ctx, fund_records_map[gi])
       IN /\ Adopt(c)
          /\ IF c.go
             THEN pc' = "periods" /\ gi' = gi /\ ri' = 1
             ELSE pc' = "groups" /\ gi' = gi + 1 /\ ri' = 0
    /\ UNCHANGED <<catalogue, call, runs, store0, dataset, all_records, offset,
                   fund_records_map, result, mode, prev>>

\* Lines 200-235 for the row the period loop is at; lines 241-244 when it
\* raises.
ProcessPeriod ==
    /\ pc = "periods"
    /\ LET g == fund_records_map[gi]
           c == PeriodStep(Ctx, g.fund_id, g.recs[ri])
       IN /\ Adopt(c)
          /\ IF c.go /\ ri < Len(g.recs)
             THEN pc' = "periods" /\ gi' = gi /\ ri' = ri + 1
             ELSE pc' = "groups" /\ gi' = gi + 1 /\ ri' = 0
    /\ UNCHANGED <<catalogue, call, runs, store0, dataset, all_records, offset,
                   fund_records_map, result, mode, prev>>

\* Lines 246-268 and the exit of the atomic block.
Finish ==
    /\ pc = "groups"
    /\ gi > Len(fund_records_map)
    /\ pc' = "done"
    /\ result' = [returned |-> TRUE, stats |-> stats]
    /\ store' = AtomicExit(needs_rollback, store0, store)
    /\ DropLocals
    /\ UNCHANGED <<catalogue, call, runs, store0, dataset, needs_rollback, last_error,
                   mode, prev>>

\* The process is terminated at any point of the run.  The statistics it
\* had counted so far are kept as the record of how far it got.
Kill ==
    /\ pc \in Running
    /\ pc' = "killed"
    /\ store' = Terminated(store0, store)
    /\ all_records' = <<>>
    /\ offset' = 0
    /\ fund_records_map' = <<>>
    /\ existing_snapshots' = {}
    /\ gi' = 0
    /\ ri' = 0
    /\ UNCHANGED <<catalogue, call, runs, store0, dataset, stats, needs_rollback,
                   last_error, result, mode, prev>>

Next ==
    \/ Acknowledge
    \/ StartRun
    \/ Rerun
    \/ Restart
    \/ FetchPage
    \/ FetchFail
    \/ Organize
    \/ Preload
    \/ ProcessGroupHead
    \/ ProcessPeriod
    \/ Finish
    \/ Kill

Spec == Init /\ [][Next]_vars

(***************************************************************************)
(* Properties.                                                             *)
(***************************************************************************)
SnapshotsOf(st, fund_id) == {s \in st.snapshots : s.fund = fund_id}

LatestSnapshots(st, fund_id) ==
    {s \in SnapshotsOf(st, fund_id) :
        \A o \in SnapshotsOf(st, fund_id) : o.report_period <= s.report_period}

CacheCoherent(st) ==
    \A f \in st.funds : \A s \in LatestSnapshots(st, f.fund_id) :
        /\ f.latest_report_period = Num(s.report_period)
        /\ f.return_rate = s.avg_annual_return_5yr
        /\ f.total_assets = s.total_assets

UniqueStore(st) ==
    /\ \A a, b \in st.snapshots :
          (a.fund = b.fund /\ a.report_period = b.report_period) => a = b
    /\ \A a, b \in st.funds : a.fund_id = b.fund_id => a = b
    /\ \A a, b \in st.companies : a.legal_id = b.legal_id => a = b

RerunDone == pc = "done" /\ mode = "rerun"

\* C1 as claimed: after a second completed run on the same D the store is
\* as after the first run, the second run reports snapshots_created = 0 and
\* snapshots_skipped equal to the first run's snapshots_created.
C1_Idempotent_AsClaimed ==
    RerunDone =>
        /\ store = store0
        /\ result.stats.snapshots_created = 0
        /\ result.stats.snapshots_skipped = prev.stats.snapshots_created

\* C1 as amended: after a second completed run on the same D the store is
\* as after the first run; the second run reports snapshots_created = 0 and
\* snapshots_skipped equal to the first run's snapshots_created plus its
\* snapshots_skipped, except that after a first run whose transaction was
\* rolled back at exit it reports the statistics of the first run again.
C1_Idempotent ==
    RerunDone =>
        /\ store = store0
        /\ IF prev.rolled_back
           THEN result.stats = prev.stats
           ELSE /\ result.stats.snapshots_created = 0
                /\ result.stats.snapshots_skipped =
                       prev.stats.snapshots_created + prev.stats.snapshots_skipped

C1_Witness ==
    /\ RerunDone
    /\ ~prev.rolled_back
    /\ prev.stats.snapshots_created > 0
    /\ prev.stats.snapshots_skipped > 0
    /\ result.stats.snapshots_skipped > prev.stats.snapshots_created

\* C2: after any sequence of completed runs every fund with a snapshot has
\* cached latest_report_period, return_rate and total_assets equal to the
\* report period, 5-year average annual return and total assets of its
\* snapshot of greatest report period.
C2_CacheCoherence == pc = "done" => CacheCoherent(store)

\* C3: no two snapshots share (fund, report_period), no two funds share a
\* fund_id, no two companies share a legal_id; and no run ever attempts an
\* insert that the unique constraints reject.
C3_Unique == UniqueStore(store) /\ last_error # "IntegrityError"

C3_Witness ==
    /\ pc = "done"
    /\ Cardinality(store.snapshots) >= 2
    /\ Cardinality(store.funds) >= 2
    /\ store.companies # {}
    /\ result.stats.snapshots_skipped > 0

AtGroup == pc = "groups" /\ gi <= Len(fund_records_map)

LacksCompany(r) ==
    \/ ~Truthy(r.MANAGING_CORPORATION_LEGAL_ID)
    \/ ~Truthy(r.MANAGING_CORPORATION)

\* C4: a fund group whose latest record lacks the company legal id or the
\* company name adds exactly one to errors and persists nothing: the loop
\* goes on to the next group with the store untouched.
C4_AllOrNothing ==
    [][ (/\ AtGroup
         /\ pc' # "killed"
         /\ LatestRecord(fund_records_map[gi].recs).ok
         /\ LacksCompany(LatestRecord(fund_records_map[gi].recs).rec))
        => (/\ stats'.errors = stats.errors + 1
            /\ store' = store
            /\ pc' = "groups"
            /\ gi' = gi + 1) ]_vars

\* C5: a failed request ends the run with an error, without statistics, and
\* with the store as it was before the run.
C5_FetchFailure ==
    /\ last_error = "FetchError" => pc = "failed"
    /\ pc = "failed" => (store = store0 /\ ~result.returned)

C5_Witness ==
    /\ pc = "failed"
    /\ Len(all_records) > 0
    /\ store # EmptyStore

CurrentGroup == fund_records_map[gi]
CurrentRow == CurrentGroup.recs[ri]

\* C6: an exception in one fund group leaves the later groups with the
\* outcome they would have had without it: the head of every group acts as
\* it would on a transaction that no earlier failure has marked.
C6_GroupFailureIsolated ==
    [][ (AtGroup /\ pc' # "killed")
        => LET c == GroupHead([Ctx EXCEPT !.needs_rollback = FALSE], CurrentGroup)
           IN store' = c.store /\ stats' = c.stats ]_vars

Unparseable(v) == v # Null /\ v.s # <<>> /\ ~IsNumber(v.s)

\* C7: a row whose monthly yield is no decimal still gets its snapshot, with
\* the monthly yield absent and the other columns stored, and errors is not
\* incremented.
C7_UnparseableIsAbsent ==
    [][ (/\ pc = "periods"
         /\ pc' # "killed"
         /\ Truthy(CurrentRow.REPORT_PERIOD)
         /\ <<CurrentGroup.fund_id, CurrentRow.REPORT_PERIOD.v>> \notin existing_snapshots
         /\ Unparseable(CurrentRow.MONTHLY_YIELD)
         /\ ~Unparseable(CurrentRow.AVG_ANNUAL_YIELD_TRAILING_5YRS)
         /\ ~Unparseable(CurrentRow.TOTAL_ASSETS))
        => (/\ stats'.errors = stats.errors
            /\ \E s \in store'.snapshots :
                  /\ s.fund = CurrentGroup.fund_id
                  /\ s.report_period = CurrentRow.REPORT_PERIOD.v
                  /\ s.monthly_yield = Null
                  /\ s.total_assets = safe_decimal(CurrentRow.TOTAL_ASSETS).val) ]_vars

RestartDone == pc = "done" /\ mode = "restart"

\* C9: a run terminated at any point and then run again to completion on
\* the same D ends with the store of one uninterrupted run on D from the
\* store the terminated run began with, and every snapshot the restarted
\* run inserts is a row the store did not hold when it began.
C9_RestartEqualsUninterrupted ==
    RestartDone =>
        /\ store = SyncAll(prev.from, dataset).store
        /\ ~needs_rollback =>
              Cardinality(store.snapshots) =
                  Cardinality(store0.snapshots) + result.stats.snapshots_created

C9_Witness ==
    /\ RestartDone
    /\ prev.stats.snapshots_created > 0
    /\ result.stats.snapshots_created > 0
    /\ store # store0

HasIdAndPeriod(r) == Truthy(r.FUND_ID) /\ Truthy(r.REPORT_PERIOD)

RowsOfFund(records, fund_id) ==
    LET Mine(r) == HasIdAndPeriod(r) /\ PyStr(r.FUND_ID) = fund_id
    IN SelectSeq(records, Mine)

\* C10: every group holds exactly the fetched rows that have both a fund
\* identifier and a report period and carry the group's identifier, in
\* fetch order; a row without identifier or without report period is in no
\* group, and a fund or snapshot is only ever created for a grouped row.
C10_Grouping ==
    pc \in {"preload", "groups", "periods"} =>
        /\ \A i \in 1..Len(fund_records_map) :
              fund_records_map[i].recs =
                  RowsOfFund(all_records, fund_records_map[i].fund_id)
        /\ \A i \in 1..Len(all_records) :
              HasIdAndPeriod(all_records[i]) =>
                  \E j \in 1..Len(fund_records_map) :
                      fund_records_map[j].fund_id = PyStr(all_records[i].FUND_ID)
        /\ \A f \in store.funds \ store0.funds :
              RowsOfFund(all_records, f.fund_id) # <<>>

LatestOfGroup == LatestRecord(CurrentGroup.recs)

Counted(r) == PyStr(r.FUND_ID) # "" /\ Truthy(r.REPORT_PERIOD)
PairOf(r) == <<PyStr(r.FUND_ID), r.REPORT_PERIOD.v>>
CountedRows(records) == {i \in 1..Len(records) : Counted(records[i])}
Occurrences(records, pair) ==
    {i \in CountedRows(records) : PairOf(records[i]) = pair}
FirstOccurrence(records, pair) ==
    CHOOSE i \in Occurrences(records, pair) :
        \A j \in Occurrences(records, pair) : i <= j
RepeatedNewPairs ==
    {PairOf(dataset[i]) : i \in CountedRows(dataset)}
        \cap {pair \in {PairOf(dataset[i]) : i \in CountedRows(dataset)} :
                 /\ Cardinality(Occurrences(dataset, pair)) > 1
                 /\ pair \notin SnapshotIndex(store0)}

\* C19 as claimed: whenever a run is over, every pair that occurs more than
\* once in D and was not in the store has exactly one snapshot, built from
\* its first row, and the run counted one creation and k - 1 skips for it.
C19_OneInsertPerPair_AsClaimed ==
    (pc = "done" /\ result.returned) =>
        \A pair \in RepeatedNewPairs :
            /\ {s \in store.snapshots : <<s.fund, s.report_period>> = pair}
                   = {snapshot_data(pair[1], dataset[FirstOccurrence(dataset, pair)])}
            /\ result.stats.snapshots_created >= 1
            /\ result.stats.snapshots_skipped
                   >= Cardinality(Occurrences(dataset, pair)) - 1

\* C19: a row whose pair occurred earlier in its group only adds one to
\* snapshots_skipped; a step that inserts a snapshot inserts the row built
\* from the first occurrence of its pair and counts one creation; and a run
\* that ends without errors has created one snapshot per new pair, from its
\* first row, and skipped every other row.
C19_OneInsertPerPair ==
    /\ [][ (pc = "periods" /\ pc' # "killed")
           => LET earlier ==
                      \E j \in 1..(ri - 1) :
                          CurrentGroup.recs[j].REPORT_PERIOD = CurrentRow.REPORT_PERIOD
              IN /\ (Truthy(CurrentRow.REPORT_PERIOD) /\ earlier)
                    => /\ stats' = [stats EXCEPT !.snapshots_skipped = @ + 1]
                       /\ store' = store
                 /\ store'.snapshots # store.snapshots
                    => /\ ~earlier
                       /\ store'.snapshots = store.snapshots
                              \cup {snapshot_data(CurrentGroup.fund_id, CurrentRow)}
                       /\ stats'.snapshots_created = stats.snapshots_created + 1
                       /\ stats'.snapshots_skipped = stats.snapshots_skipped ]_vars
    /\ [](  (pc = "done" /\ result.returned /\ result.stats.errors = 0)
            => LET pairs == {PairOf(dataset[i]) : i \in CountedRows(dataset)}
                   new == pairs \ SnapshotIndex(store0)
               IN /\ result.stats.snapshots_created = Cardinality(new)
                  /\ result.stats.snapshots_skipped
                         = Cardinality(CountedRows(dataset)) - Cardinality(new)
                  /\ \A pair \in new :
                        snapshot_data(pair[1], dataset[FirstOccurrence(dataset, pair)])
                            \in store.snapshots )

C19_Witness ==
    /\ pc = "done"
    /\ result.stats.errors = 0
    /\ result.stats.snapshots_created = 1
    /\ result.stats.snapshots_skipped = 1
    /\ store0.snapshots = {}
    /\ Len(dataset) = 2
    /\ dataset[1] # dataset[2]
    /\ RepeatedNewPairs # {}

\* C20: the head of every group works from a row of the group whose report
\* period is the greatest of the group, the first such row, and never ends
\* in an exception raised by the selection.
C20_LatestRecord ==
    [][ (AtGroup /\ pc' # "killed" /\ ~needs_rollback)
        => /\ last_error' # "TypeError"
           /\ \E i \in 1..Len(CurrentGroup.recs) :
                 /\ LatestOfGroup.rec = CurrentGroup.recs[i]
                 /\ \A j \in 1..Len(CurrentGroup.recs) :
                       Truthy(CurrentGroup.recs[j].REPORT_PERIOD) =>
                           /\ Truthy(CurrentGroup.recs[i].REPORT_PERIOD)
                           /\ CurrentGroup.recs[j].REPORT_PERIOD.v
                                  <= CurrentGroup.recs[i].REPORT_PERIOD.v
                           /\ j < i => CurrentGroup.recs[j].REPORT_PERIOD.v
                                           < CurrentGroup.recs[i].REPORT_PERIOD.v ]_vars

\* C25: when a run has returned its statistics, the store holds as many
\* companies, funds and snapshots as before the run plus companies_created,
\* funds_created and snapshots_created of the statistics.
C25_CountsMatchStats ==
    (pc = "done" /\ result.returned) =>
        /\ Cardinality(store.companies) =
               Cardinality(store0.companies) + result.stats.companies_created
        /\ Cardinality(store.funds) =
               Cardinality(store0.funds) + result.stats.funds_created
        /\ Cardinality(store.snapshots) =
               Cardinality(store0.snapshots) + result.stats.snapshots_created

\* the outcome of the whole group the loop is at (lines 153-244)
GroupOutcome == RunGroup(Ctx, CurrentGroup)

\* C26: a fund group that the run counts in errors leaves the store as it
\* was when the group was begun: no new company, no new or modified fund
\* and no new snapshot.
C26_FailedGroupPersistsNothing ==
    (AtGroup /\ GroupOutcome.stats.errors > stats.errors)
        => GroupOutcome.store = store

\* the stored value of a column: the parsed text, absent when the text is
\* absent, empty or no number
Parsed(v) == safe_decimal(v).val

\* C22: every snapshot a run inserts carries, for each metric column of the
\* upstream row it is built from, the parsed value of that column.
C22_AllMetricsStored ==
    [][ (pc = "periods" /\ pc' # "killed")
        => \A s \in store'.snapshots \ store.snapshots :
              /\ s.fund = CurrentGroup.fund_id
              /\ s.report_period = CurrentRow.REPORT_PERIOD.v
              /\ s.monthly_yield = Parsed(CurrentRow.MONTHLY_YIELD)
              /\ s.avg_annual_return_3yr
                     = Parsed(CurrentRow.AVG_ANNUAL_YIELD_TRAILING_3YRS)
              /\ s.avg_annual_return_5yr
                     = Parsed(CurrentRow.AVG_ANNUAL_YIELD_TRAILING_5YRS)
              /\ s.total_assets = Parsed(CurrentRow.TOTAL_ASSETS)
              /\ s.liquid_assets_percent
                     = Parsed(CurrentRow.LIQUID_ASSETS_PERCENT) ]_vars

(***************************************************************************)
(* fetch_gemelnet_data(limit) against a source that holds `held` rows,     *)
(* reports `total` rows (the number it holds, or another number) and       *)
(* serves every page it is asked for.  A row is its position in the        *)
(* source.  `requests` is the log of the requests the call has issued: the *)
(* limit and offset sent and the rows received.                            *)
(***************************************************************************)
FetchTotals == {0, 1, 999, 1000, 1001, 2000, 2500, 3000}

\* the rows a source reporting `total` holds: that many, fewer or more
FetchHeld(total) == {total, 0, 1, 1000, 1500}
FetchLimits ==
    {Null, Num(0), Num(1), Num(500), Num(1000), Num(1500), Num(5000)}

ServePage(total, limit, from) ==
    LET last == IF from + limit < total THEN from + limit ELSE total
    IN IF last <= from THEN <<>> ELSE [k \in 1..(last - from) |-> from + k]

\* Mutant: the page size is capped at the batch size.
PageLimitCapped(limit) ==
    IF Truthy(limit) /\ limit.v < BatchSize THEN limit.v ELSE BatchSize

\* Line 28: 'limit': limit if limit else batch_size
PageLimit(limit) == IF Truthy(limit) THEN limit.v ELSE BatchSize

\* Mutant: the loop stops only when it has more rows than the total.
FetchStopLate(limit, fetched, total) == Truthy(limit) \/ fetched > total

\* Line 50: if limit or len(all_records) >= total: break
FetchStop(limit, fetched, total) == Truthy(limit) \/ fetched >= total

\* Mutant: an empty page is asked for again.
OnEmptyPageRetry(f, log) == f

\* Lines 44-45: if not records: break
OnEmptyPage(f, log) == [f EXCEPT !.requests = log, !.returned = TRUE]

\* One pass of the loop at lines 25-53.
FetchLoop(f) ==
    LET page_limit == PageLimit(f.limit)
        records == ServePage(f.held, page_limit, f.offset)
        fetched == f.all_records \o records
        log == Append(f.requests, [limit |-> page_limit, offset |-> f.offset,
                                   served |-> Len(records)])
    IN IF records = <<>>
       THEN OnEmptyPage(f, log)
       ELSE IF FetchStop(f.limit, Len(fetched), f.total)
       THEN [f EXCEPT !.requests = log, !.all_records = fetched,
                      !.returned = TRUE]
       ELSE [f EXCEPT !.requests = log, !.all_records = fetched,
                      !.offset = @ + BatchSize]

SyncVars ==
    <<catalogue, store, store0, pc, dataset, all_records, offset,
      fund_records_map, existing_snapshots, gi, ri, stats, needs_rollback,
      last_error, result, mode, prev>>

\* fetch_gemelnet_data(limit) is called: lines 17-21.
CallFetch ==
    /\ call = NoCall
    /\ \E t \in FetchTotals, l \in FetchLimits : \E h \in FetchHeld(t) :
          call' = [fn |-> "fetch", limit |-> l, total |-> t, held |-> h,
                   all_records |-> <<>>, offset |-> 0, requests |-> <<>>,
                   returned |-> FALSE]
    /\ UNCHANGED <<SyncVars, runs>>

FetchRequest ==
    /\ call.fn = "fetch"
    /\ ~call.returned
    /\ call' = FetchLoop(call)
    /\ UNCHANGED <<SyncVars, runs>>

\* The caller has the value the function returned.
Return ==
    /\ call.fn # "none"
    /\ call.returned
    /\ call' = NoCall
    /\ UNCHANGED <<SyncVars, runs>>

(***************************************************************************)
(* portfolios/models.py: the derived metrics.  An amount is a whole number *)
(* of ILS, a return rate a whole percentage or NULL, a date the number of  *)
(* its day.  A Decimal quotient is kept as the exact fraction num/den; the *)
(* 28-digit rounding of the decimal context is not modelled.  A call ends  *)
(* with a value, with None, or with the exception it raised.               *)
(***************************************************************************)
MaxHoldings == 2

Value(v) == [ok |-> TRUE, val |-> v]
Raised(exc) == [ok |-> FALSE, exc |-> exc]
Quot(n, d) == [t |-> "quot", num |-> n, den |-> d]

HoldingAmounts == {0, 1000, 3000, 10000}
ReturnRates == {Null, Dec(10), Dec(12), Dec(20)}
Days == {730, 731}
PurchaseDates == {Null, Num(365), Num(366), Num(730), Num(731), Num(760)}

Holdings ==
    [amount : HoldingAmounts, return_rate : ReturnRates,
     purchase_date : PurchaseDates]

\* Lines 147-149, from holding i on.
RECURSIVE AverageLoop(_, _, _, _)
AverageLoop(holdings, i, total_value, weighted_return) ==
    IF i > Len(holdings)
    THEN IF total_value > 0
         THEN Value(Quot(weighted_return, total_value))
         ELSE Value(Dec(0))
    ELSE IF holdings[i].return_rate = Null THEN Raised("TypeError")
    ELSE AverageLoop(holdings, i + 1, total_value + holdings[i].amount,
                     weighted_return
                         + holdings[i].amount * holdings[i].return_rate.v)

\* Portfolio.get_average_return
get_average_return(holdings) ==
    IF holdings = <<>> THEN Value(Dec(0)) ELSE AverageLoop(holdings, 1, 0, 0)

\* PortfolioHolding.get_days_held
get_days_held(holding, today) ==
    IF holding.purchase_date = Null THEN Null
    ELSE Num(today - holding.purchase_date.v)

\* PortfolioHolding.get_profit_loss_amount
get_profit_loss_amount(holding, today) ==
    LET days_held == get_days_held(holding, today)
    IN IF days_held = Null THEN Value(Null)
       ELSE IF holding.return_rate = Null THEN Raised("TypeError")
       ELSE Value(Quot(holding.amount * holding.return_rate.v * days_held.v,
                       100 * 365))

\* PortfolioHolding.get_profit_loss_percentage
get_profit_loss_percentage(holding, today) ==
    LET days_held == get_days_held(holding, today)
    IN IF days_held = Null THEN Value(Null)
       ELSE IF holding.return_rate = Null THEN Raised("TypeError")
       ELSE Value(Quot(holding.return_rate.v * days_held.v, 365))

Intervals == {"DAILY", "WEEKLY", "MONTHLY", "QUARTERLY", "YEARLY", "HOURLY"}
PlanAmounts == {0, 100, 250}
StartDates == {0, 365, 700, 731, 800}
EndDates == {Null, Num(300), Num(500), Num(730), Num(900)}

Plans ==
    [amount : PlanAmounts, interval : Intervals, start_date : StartDates,
     end_date : EndDates, is_active : BOOLEAN]

\* Mutant: the end date is used even when it is still to come.
ContributionEndAlways(end_date, today) ==
    IF end_date # Null THEN end_date.v ELSE today

\* Lines 341-343.
ContributionEnd(end_date, today) ==
    IF end_date # Null /\ end_date.v < today THEN end_date.v ELSE today

\* PeriodicContribution.get_total_contributions_to_date
get_total_contributions_to_date(plan, today) ==
    IF ~plan.is_active THEN Dec(0)
    ELSE IF plan.start_date > today THEN Dec(0)
    ELSE LET end == ContributionEnd(plan.end_date, today)
             days_diff == end - plan.start_date
             num_contributions ==
                 IF plan.interval = "DAILY" THEN days_diff
                 ELSE IF plan.interval = "WEEKLY" THEN days_diff \div 7
                 ELSE IF plan.interval = "MONTHLY" THEN days_diff \div 30
                 ELSE IF plan.interval = "QUARTERLY" THEN days_diff \div 90
                 ELSE IF plan.interval = "YEARLY" THEN days_diff \div 365
                 ELSE 0
         IN Dec(plan.amount * num_contributions)

CallGetAverageReturn ==
    /\ call = NoCall
    /\ \E h \in SeqsUpTo([amount : {0, 1000, 3000},
                          return_rate : {Null, Dec(10), Dec(20)},
                          purchase_date : {Null}], MaxHoldings) :
          call' = [fn |-> "get_average_return", holdings |-> h,
                   out |-> get_average_return(h), returned |-> TRUE]
    /\ UNCHANGED <<SyncVars, runs>>

CallProfitLoss ==
    /\ call = NoCall
    /\ \E h \in Holdings, today \in Days :
          call' = [fn |-> "get_profit_loss", holding |-> h, today |-> today,
                   amount |-> get_profit_loss_amount(h, today),
                   percentage |-> get_profit_loss_percentage(h, today),
                   returned |-> TRUE]
    /\ UNCHANGED <<SyncVars, runs>>

CallTotalContributions ==
    /\ call = NoCall
    /\ \E plan \in Plans, today \in Days :
          call' = [fn |-> "get_total_contributions_to_date", plan |-> plan,
                   today |-> today,
                   out |-> get_total_contributions_to_date(plan, today),
                   returned |-> TRUE]
    /\ UNCHANGED <<SyncVars, runs>>

(***************************************************************************)
(* funds/gemelnet_sync.py: map_category.  A text is None or a sequence of  *)
(* words and `in` is containment of a run of words; the words stand for    *)
(* the Hebrew keywords of the rules (with and without gershayim) and for   *)
(* one word that is no keyword.  lower() changes none of them.             *)
(***************************************************************************)
MaxWords == 2

Words ==
    {"menayot", "agach_gershayim", "agach", "meorav", "shuk", "kesef",
     "chul", "madad", "nadlan", "klali"}

Texts == {Null} \cup {Str(w) : w \in SeqsUpTo(Words, MaxWords)}

\* keyword in text
Contains(keyword, text) ==
    \E i \in 0..(Len(text) - Len(keyword)) :
        SubSeq(text, i + 1, i + Len(keyword)) = keyword

\* (value or '').lower()
OrEmptyLower(value) == IF value = Null THEN <<>> ELSE value.s

\* Fund.Category.<member>: class Fund defines no attribute Category.
FundCategory(member) == Raised("AttributeError")

\* map_category(fund_classification, specialization)
map_category(fund_classification, specialization) ==
    LET classification == OrEmptyLower(fund_classification)
        spec == OrEmptyLower(specialization)
    IN IF Contains(<<"menayot">>, classification) \/ Contains(<<"menayot">>, spec)
       THEN FundCategory("STOCKS")
       ELSE IF \/ Contains(<<"agach_gershayim">>, classification)
               \/ Contains(<<"agach_gershayim">>, spec)
               \/ Contains(<<"agach">>, classification)
       THEN FundCategory("BONDS")
       ELSE IF Contains(<<"meorav">>, classification) \/ Contains(<<"meorav">>, spec)
       THEN FundCategory("MIXED")
       ELSE IF Contains(<<"shuk", "kesef">>, classification) \/ Contains(<<"kesef">>, spec)
       THEN FundCategory("MONEY_MARKET")
       ELSE IF Contains(<<"chul">>, classification)
       THEN FundCategory("FOREIGN")
       ELSE IF Contains(<<"madad">>, classification) \/ Contains(<<"madad">>, spec)
       THEN FundCategory("INDEX")
       ELSE IF Contains(<<"nadlan">>, classification)
       THEN FundCategory("REAL_ESTATE")
       ELSE Value("")

CallMapCategory ==
    /\ call = NoCall
    /\ \E fc \in Texts, sp \in Texts :
          call' = [fn |-> "map_category", fund_classification |-> fc,
                   specialization |-> sp, out |-> map_category(fc, sp),
                   returned |-> TRUE]
    /\ UNCHANGED <<SyncVars, runs>>

(***************************************************************************)
(* funds/gemelnet_sync.py: sync_gemelnet_data, the sync that keeps the     *)
(* latest period of every fund.  The call runs in one transaction on the   *)
(* committed store `before`; `records` is what its fetch returned.         *)
(***************************************************************************)
\* the names bound at module level of funds/gemelnet_sync.py
ModuleNames ==
    {"requests", "datetime", "Decimal", "transaction", "Company", "Fund",
     "FundSnapshot", "GEMELNET_API_URL", "GEMELNET_RESOURCE_ID",
     "fetch_gemelnet_data", "organize_records_by_fund", "parse_date",
     "safe_decimal", "map_category", "sync_gemelnet_data"}

\* the evaluation of a global name
LookupGlobal(name) ==
    IF name \in ModuleNames THEN Value(name) ELSE Raised("NameError")

NoStatsLatest ==
    [total_fetched |-> 0, unique_funds |-> 0, companies_created |-> 0,
     companies_updated |-> 0, funds_created |-> 0, funds_updated |-> 0,
     errors |-> 0]

\* Lines 228-248 and 322-324.  Line 248 evaluates get_latest_period_data;
\* the exception leaves the function through its handler and the atomic
\* block, so lines 249-320 are reached by no call with records.
sync_gemelnet_data(before, records) ==
    LET counted == [NoStatsLatest EXCEPT !.total_fetched = Len(records)]
        get_latest_period_data == LookupGlobal("get_latest_period_data")
    IN IF records = <<>>
       THEN [ok |-> TRUE, stats |-> counted, store |-> before]
       ELSE [ok |-> FALSE, exc |-> get_latest_period_data.exc, stats |-> counted,
             store |-> AtomicExit(TRUE, before, before)]

\* the store an earlier run on one row of the second fund has committed
SeededStore ==
    SyncAll(EmptyStore, <<Row(F2, P1, L1, CoA, T10, T500, Null)>>).store

CallSyncLatest ==
    /\ call = NoCall
    /\ \E before \in {EmptyStore, SeededStore}, d \in Datasets(CatHistory) :
          call' = [fn |-> "sync_gemelnet_data", before |-> before,
                   records |-> d, out |-> sync_gemelnet_data(before, d),
                   returned |-> TRUE]
    /\ UNCHANGED <<SyncVars, runs>>

InitCalls == catalogue = {} /\ SyncIdle /\ call = NoCall /\ runs = NoRuns

NextCalls ==
    \/ CallFetch
    \/ FetchRequest
    \/ CallGetAverageReturn
    \/ CallProfitLoss
    \/ CallTotalContributions
    \/ CallMapCategory
    \/ CallSyncLatest
    \/ Return

SpecCalls == InitCalls /\ [][NextCalls]_vars

FetchReturned == call.fn = "fetch" /\ call.returned

\* the source reports the number of rows it holds
TotalIsHeld == call.total = call.held

CeilDiv(a, b) == (a + b - 1) \div b

\* C11: without a limit and with a total T > 0 the call issues exactly
\* ceil(T/1000) requests, of 1000 rows each, at offsets 0, 1000, 2000, ...,
\* each answered with the rows left up to 1000, and returns the T rows of
\* the source in order.
C11_Pagination ==
    (FetchReturned /\ TotalIsHeld /\ ~Truthy(call.limit) /\ call.total > 0) =>
        /\ Len(call.requests) = CeilDiv(call.total, 1000)
        /\ \A i \in 1..Len(call.requests) :
              /\ call.requests[i].limit = 1000
              /\ call.requests[i].offset = 1000 * (i - 1)
              /\ call.requests[i].served =
                     IF i < Len(call.requests) THEN 1000
                     ELSE call.total - 1000 * (i - 1)
        /\ call.all_records = [k \in 1..call.total |-> k]

C11_Witness ==
    /\ FetchReturned
    /\ TotalIsHeld
    /\ call.limit = Null
    /\ call.total = 2500
    /\ Len(call.requests) = 3
    /\ call.requests[3].served = 500
    /\ Len(call.all_records) = 2500

\* C12 as claimed: with a limit L > 0 the call issues one request, for L
\* rows when L < 1000 and for 1000 rows otherwise.
C12_SinglePage_AsClaimed ==
    (FetchReturned /\ TotalIsHeld /\ Truthy(call.limit)) =>
        /\ Len(call.requests) = 1
        /\ call.requests[1].limit =
               (IF call.limit.v < 1000 THEN call.limit.v ELSE 1000)
        /\ call.requests[1].limit <= 1000

\* C12: with a limit L > 0 the call issues one request, at offset 0 and for
\* L rows whatever L is, and returns the first min(L, T) rows.
C12_SinglePage ==
    (FetchReturned /\ TotalIsHeld /\ Truthy(call.limit)) =>
        /\ call.requests = <<[limit |-> call.limit.v, offset |-> 0,
                              served |-> Len(call.all_records)]>>
        /\ call.all_records =
               ServePage(call.total, call.limit.v, 0)
        /\ Len(call.all_records) =
               (IF call.limit.v < call.total THEN call.limit.v ELSE call.total)

C12_Witness ==
    /\ FetchReturned
    /\ TotalIsHeld
    /\ call.limit = Num(1500)
    /\ call.total = 2500
    /\ Len(call.requests) = 1
    /\ Len(call.all_records) = 1500

\* The fetch loop is scheduled until it ends: a call that can issue its next
\* request does issue it.
SpecFetchLive == InitCalls /\ [][NextCalls]_vars /\ WF_vars(FetchRequest)

RECURSIVE ServedUpTo(_, _)
ServedUpTo(requests, i) ==
    IF i = 0 THEN 0 ELSE ServedUpTo(requests, i - 1) + requests[i].served

\* the loop stops after request i of the call
StopsAfter(i) ==
    \/ call.requests[i].served = 0
    \/ Truthy(call.limit)
    \/ ServedUpTo(call.requests, i) >= call.total

\* C21: every call of fetch returns, whatever the source holds and whatever
\* total it reports; it returns after the first request that is answered
\* with no rows, or that was made with a limit, or that brings the rows
\* accumulated to the reported total, and after no earlier request.
C21_FetchTerminates ==
    /\ (call.fn = "fetch") ~> FetchReturned
    /\ [](FetchReturned =>
            /\ Len(call.requests) >= 1
            /\ StopsAfter(Len(call.requests))
            /\ \A i \in 1..(Len(call.requests) - 1) : ~StopsAfter(i)
            /\ Len(call.all_records) = ServedUpTo(call.requests, Len(call.requests)))

C21_Witness ==
    /\ FetchReturned
    /\ call.limit = Null
    /\ call.total = 2500
    /\ call.held = 1500
    /\ Len(call.requests) = 3
    /\ call.requests[3].served = 0
    /\ Len(call.all_records) = 1500

FundGroups(records) ==
    {PyStr(records[i].FUND_ID) : i \in CountedRows(records)}

\* C23: a call of the latest-period sync whose fetch returned records ends
\* without an exception, leaves a company for the legal id and a fund for
\* the fund id of every fund group, and returns statistics in which
\* funds_created + funds_updated + errors = unique_funds, the number of
\* fund groups.
C23_LatestSyncCompletes ==
    (call.fn = "sync_gemelnet_data" /\ call.records # <<>>) =>
        /\ call.out.ok
        /\ call.out.stats.unique_funds = Cardinality(FundGroups(call.records))
        /\ call.out.stats.funds_created + call.out.stats.funds_updated
               + call.out.stats.errors = call.out.stats.unique_funds
        /\ call.out.stats.errors = 0 =>
               \A id \in FundGroups(call.records) :
                   \E f \in call.out.store.funds :
                       /\ f.fund_id = id
                       /\ \E c \in call.out.store.companies :
                              c.legal_id = f.company

RECURSIVE SumAmounts(_)
SumAmounts(holdings) ==
    IF holdings = <<>> THEN 0
    ELSE holdings[1].amount + SumAmounts(Tail(holdings))

RECURSIVE SumWeighted(_)
SumWeighted(holdings) ==
    IF holdings = <<>> THEN 0
    ELSE holdings[1].amount * holdings[1].return_rate.v
             + SumWeighted(Tail(holdings))

\* the fraction or whole number v equals n/d
EqualsFraction(v, n, d) ==
    IF v.t = "quot" THEN v.num * d = n * v.den ELSE v.v * d = n

\* C15: for every portfolio the weighted return is the sum of amount times
\* cached return rate over the sum of the amounts, and 0 for a portfolio
\* without holdings or with a total amount of zero.
C15_WeightedReturn ==
    call.fn = "get_average_return" =>
        /\ call.out.ok
        /\ IF call.holdings = <<>> \/ SumAmounts(call.holdings) = 0
           THEN call.out.val = Dec(0)
           ELSE EqualsFraction(call.out.val, SumWeighted(call.holdings),
                               SumAmounts(call.holdings))

\* C16: without a purchase date both results are None; with a purchase
\* date d days before today the amount is amount * (rate/100) * (d/365),
\* the percentage is (rate/365) * d, and the amount is the holding amount
\* times the percentage over 100.
C16_ProfitLoss ==
    call.fn = "get_profit_loss" =>
        /\ call.amount.ok /\ call.percentage.ok
        /\ IF call.holding.purchase_date = Null
           THEN call.amount.val = Null /\ call.percentage.val = Null
           ELSE LET d == call.today - call.holding.purchase_date.v
                    rate == call.holding.return_rate.v
                IN /\ EqualsFraction(call.amount.val,
                                     call.holding.amount * rate * d, 100 * 365)
                   /\ EqualsFraction(call.percentage.val, rate * d, 365)
                   /\ call.amount.val.num * call.percentage.val.den * 100
                          = call.holding.amount * call.percentage.val.num
                                * call.amount.val.den

\* a holding of a user in the fund f of the store: fund.return_rate is read
\* through the foreign key (lines 149, 234, 251)
HoldingIn(f, amount, purchase_date) ==
    [amount |-> amount, return_rate |-> f.return_rate,
     purchase_date |-> purchase_date]

\* C28: in every store a completed sync run leaves, the weighted return of
\* a portfolio holding any fund of the store and the profit/loss amount and
\* percentage of a holding with a purchase date in any fund of the store
\* are numbers, not exceptions.
C28_MetricsDefined ==
    pc = "done" =>
        \A f \in store.funds :
            LET holding == HoldingIn(f, 1000, Num(365))
            IN /\ get_average_return(<<holding>>).ok
               /\ get_profit_loss_amount(holding, 730).ok
               /\ get_profit_loss_percentage(holding, 730).ok

\* C29: for every plan with an amount of zero or more, whatever its start
\* date, its end date and today, the total to date is zero or more.
C29_TotalNonNegative ==
    (call.fn = "get_total_contributions_to_date" /\ call.plan.amount >= 0)
        => call.out.v >= 0

IntervalDays(interval) ==
    CASE interval = "DAILY" -> 1
      [] interval = "WEEKLY" -> 7
      [] interval = "MONTHLY" -> 30
      [] interval = "QUARTERLY" -> 90
      [] interval = "YEARLY" -> 365

\* floor(a / b) for b > 0, from its defining inequalities
Floor(a, b) == CHOOSE q \in -1000..1000 : q * b <= a /\ a < (q + 1) * b

\* C17: the total to date is 0 for an inactive plan or one that starts
\* after today, and otherwise amount times floor(D / interval length), D
\* being the days from the start date to min(end date, today).
C17_TotalContributions ==
    (call.fn = "get_total_contributions_to_date"
         /\ call.plan.interval \in {"DAILY", "WEEKLY", "MONTHLY", "QUARTERLY", "YEARLY"})
    => LET plan == call.plan
           upto == IF plan.end_date # Null /\ plan.end_date.v < call.today
                   THEN plan.end_date.v ELSE call.today
           D == upto - plan.start_date
       IN /\ upto <= call.today
          /\ plan.end_date # Null => upto <= plan.end_date.v
          /\ call.out =
                 IF ~plan.is_active \/ plan.start_date > call.today
                 THEN Dec(0)
                 ELSE Dec(plan.amount * Floor(D, IntervalDays(plan.interval)))

C17_Witness ==
    /\ call.fn = "get_total_contributions_to_date"
    /\ call.plan.is_active
    /\ call.plan.interval = "MONTHLY"
    /\ call.plan.start_date = 365
    /\ call.plan.end_date = Num(500)
    /\ call.plan.amount = 100
    /\ call.out = Dec(400)

Categories ==
    {"stocks", "bonds", "mixed", "money_market", "foreign", "index",
     "real_estate", ""}

\* the rules in their order: the category and whether a keyword matches
RuleTable(classification, spec) ==
    << [category |-> "stocks",
        matches |-> Contains(<<"menayot">>, classification)
                        \/ Contains(<<"menayot">>, spec)],
       [category |-> "bonds",
        matches |-> \/ Contains(<<"agach_gershayim">>, classification)
                    \/ Contains(<<"agach_gershayim">>, spec)
                    \/ Contains(<<"agach">>, classification)],
       [category |-> "mixed",
        matches |-> Contains(<<"meorav">>, classification)
                        \/ Contains(<<"meorav">>, spec)],
       [category |-> "money_market",
        matches |-> Contains(<<"shuk", "kesef">>, classification)
                        \/ Contains(<<"kesef">>, spec)],
       [category |-> "foreign", matches |-> Contains(<<"chul">>, classification)],
       [category |-> "index",
        matches |-> Contains(<<"madad">>, classification)
                        \/ Contains(<<"madad">>, spec)],
       [category |-> "real_estate",
        matches |-> Contains(<<"nadlan">>, classification)] >>

\* C18: for every pair of texts the mapping returns one member of the
\* enumeration: the category of the first rule with a matching keyword,
\* and the empty category when no rule matches.
C18_CategoryMapping ==
    call.fn = "map_category" =>
        LET rules == RuleTable(OrEmptyLower(call.fund_classification),
                               OrEmptyLower(call.specialization))
            hits == {i \in 1..Len(rules) : rules[i].matches}
        IN /\ call.out.ok
           /\ call.out.val \in Categories
           /\ call.out.val =
                  IF hits = {} THEN ""
                  ELSE rules[CHOOSE i \in hits : \A j \in hits : i <= j].category

(***************************************************************************)
(* Two runs of sync_gemelnet_data_with_history on one database.  Each run  *)
(* is one transaction: it reads the committed rows and its own writes, a   *)
(* write to a row another open transaction has written waits until that   *)
(* transaction ends, and two runs waiting for each other are resolved by   *)
(* the database failing the statement of one of them.  `mine` holds the    *)
(* uncommitted rows of a run, `attempted` the pairs it has tried to        *)
(* insert, `early` whether it pre-loaded before any insert was tried.      *)
(***************************************************************************)
RunIds == {"A", "B"}
Other(x) == IF x = "A" THEN "B" ELSE "A"

IdleRun ==
    [pc |-> "idle", fund_records_map |-> <<>>, existing |-> {}, gi |-> 0,
     ri |-> 0, stats |-> NoStats, needs_rollback |-> FALSE,
     last_error |-> "none", mine |-> EmptyStore, locked |-> {},
     attempted |-> {}, early |-> FALSE]

InTransaction(run) == run.pc \in {"preload", "groups", "periods"}

\* Mutant: a run is admitted only while no other run is in progress.
AdmittedAlone(other) == ~InTransaction(other)

\* Lines 104-132: the entry takes no lock and looks at no other run.
Admitted(other) == TRUE

\* what the statements of a run read
View(db, run) ==
    [companies |-> db.companies \cup run.mine.companies,
     funds |-> {f \in db.funds : f.fund_id \notin run.locked} \cup run.mine.funds,
     snapshots |-> db.snapshots \cup run.mine.snapshots]

CtxOf(db, run) ==
    [store |-> View(db, run), stats |-> run.stats, existing |-> run.existing,
     needs_rollback |-> run.needs_rollback, last_error |-> run.last_error,
     go |-> TRUE]

\* the run with the outcome c of a step that wrote the fund rows `funds`
Adopted(db, run, c, funds) ==
    [run EXCEPT !.stats = c.stats, !.existing = c.existing,
                !.needs_rollback = c.needs_rollback,
                !.last_error = c.last_error,
                !.locked = @ \cup funds,
                !.mine = [companies |-> c.store.companies \ db.companies,
                          funds |-> {f \in c.store.funds :
                                        f.fund_id \in run.locked \cup funds},
                          snapshots |-> c.store.snapshots \ db.snapshots]]

GroupOf(run) == run.fund_records_map[run.gi]
RowOf(run) == GroupOf(run).recs[run.ri]
AtHead(run) == run.pc = "groups" /\ run.gi <= Len(run.fund_records_map)

\* the head of the run's group has to write a row the other run has written
Waits(db, run, other) ==
    /\ AtHead(run)
    /\ InTransaction(other)
    /\ LET c == GroupHead(CtxOf(db, run), GroupOf(run))
       IN \/ c.go /\ GroupOf(run).fund_id \in other.locked
          \/ \E co \in c.store.companies \ View(db, run).companies :
                \E oc \in other.mine.companies : oc.legal_id = co.legal_id

\* FundSnapshot.objects.create is reached for the row (lines 205-231)
InsertAttempted(run) ==
    /\ run.pc = "periods"
    /\ Truthy(RowOf(run).REPORT_PERIOD)
    /\ <<GroupOf(run).fund_id, RowOf(run).REPORT_PERIOD.v>> \notin run.existing
    /\ safe_decimal(RowOf(run).MONTHLY_YIELD).ok
    /\ safe_decimal(RowOf(run).AVG_ANNUAL_YIELD_TRAILING_3YRS).ok
    /\ safe_decimal(RowOf(run).AVG_ANNUAL_YIELD_TRAILING_5YRS).ok
    /\ safe_decimal(RowOf(run).TOTAL_ASSETS).ok
    /\ ~run.needs_rollback

Enter(x) ==
    /\ runs.r[x].pc = "idle"
    /\ Admitted(runs.r[Other(x)])
    /\ \E d \in Datasets(CatHistory) \ {<<>>} :
          LET m == organize_by_fund(d)
          IN runs' = [runs EXCEPT
                 !.r[x].pc = "preload",
                 !.r[x].fund_records_map = m,
                 !.r[x].stats = [NoStats EXCEPT !.total_fetched = Len(d),
                                                !.unique_funds = Len(m)]]
    /\ UNCHANGED <<SyncVars, call>>

ConcurrentPreload(x) ==
    /\ runs.r[x].pc = "preload"
    /\ runs' = [runs EXCEPT
           !.r[x].existing = SnapshotIndex(View(runs.db, runs.r[x])),
           !.r[x].early = \A y \in RunIds : runs.r[y].attempted = {},
           !.r[x].pc = "groups",
           !.r[x].gi = 1]
    /\ UNCHANGED <<SyncVars, call>>

ConcurrentGroupHead(x) ==
    LET run == runs.r[x]
        c == GroupHead(CtxOf(runs.db, run), GroupOf(run))
        wrote == IF c.go THEN {GroupOf(run).fund_id} ELSE {}
        after == Adopted(runs.db, run, c, wrote)
    IN /\ AtHead(run)
       /\ ~Waits(runs.db, run, runs.r[Other(x)])
       /\ runs' = [runs EXCEPT !.r[x] =
              IF c.go THEN [after EXCEPT !.pc = "periods", !.ri = 1]
              ELSE [after EXCEPT !.gi = @ + 1]]
       /\ UNCHANGED <<SyncVars, call>>

\* Both runs wait for each other: the database fails the statement of one.
DeadlockVictim(x) ==
    LET run == runs.r[x]
    IN /\ Waits(runs.db, run, runs.r[Other(x)])
       /\ Waits(runs.db, runs.r[Other(x)], run)
       /\ runs' = [runs EXCEPT !.r[x] =
              [run EXCEPT !.stats.errors = @ + 1,
                          !.last_error = "OperationalError",
                          !.gi = @ + 1]]
       /\ UNCHANGED <<SyncVars, call>>

ConcurrentPeriod(x) ==
    LET run == runs.r[x]
        c == PeriodStep(CtxOf(runs.db, run), GroupOf(run).fund_id, RowOf(run))
        after == [Adopted(runs.db, run, c, {}) EXCEPT
                     !.attempted =
                         IF InsertAttempted(run)
                         THEN @ \cup {<<GroupOf(run).fund_id,
                                        RowOf(run).REPORT_PERIOD.v>>}
                         ELSE @]
    IN /\ run.pc = "periods"
       /\ runs' = [runs EXCEPT !.r[x] =
              IF c.go /\ run.ri < Len(GroupOf(run).recs)
              THEN [after EXCEPT !.ri = @ + 1]
              ELSE [after EXCEPT !.pc = "groups", !.gi = @ + 1, !.ri = 0]]
       /\ UNCHANGED <<SyncVars, call>>

\* return stats: the atomic block commits, or rolls back when marked.
ConcurrentFinish(x) ==
    LET run == runs.r[x]
    IN /\ run.pc = "groups"
       /\ run.gi > Len(run.fund_records_map)
       /\ runs' = [runs EXCEPT
              !.db = AtomicExit(run.needs_rollback, runs.db, View(runs.db, run)),
              !.r[x].pc = "done",
              !.r[x].mine = EmptyStore,
              !.r[x].locked = {}]
       /\ UNCHANGED <<SyncVars, call>>

InitConcurrent ==
    /\ catalogue = CatHistory
    /\ SyncIdle
    /\ call = NoCall
    /\ \E db \in {EmptyStore, SeededStore} :
          runs = [db |-> db, r |-> [x \in RunIds |-> IdleRun]]

NextConcurrent ==
    \E x \in RunIds :
        \/ Enter(x)
        \/ ConcurrentPreload(x)
        \/ ConcurrentGroupHead(x)
        \/ DeadlockVictim(x)
        \/ ConcurrentPeriod(x)
        \/ ConcurrentFinish(x)

SpecConcurrent == InitConcurrent /\ [][NextConcurrent]_vars

\* C13: no run is ever kept from starting by the other one, and a run that
\* does not find a pair in its own index attempts the insert whatever the
\* other run has done: when the other run has committed the pair in the
\* meantime the attempt is the one the database rejects.
C13_NoMutualExclusion ==
    /\ \A x \in RunIds : runs.r[x].pc = "idle" => ENABLED Enter(x)
    /\ \A x \in RunIds :
          (InsertAttempted(runs.r[x])
             /\ <<GroupOf(runs.r[x]).fund_id, RowOf(runs.r[x]).REPORT_PERIOD.v>>
                    \in SnapshotIndex(runs.db))
          => PeriodStep(CtxOf(runs.db, runs.r[x]), GroupOf(runs.r[x]).fund_id,
                        RowOf(runs.r[x])).last_error = "IntegrityError"

C13_Witness ==
    /\ runs.r["A"].early
    /\ runs.r["B"].early
    /\ runs.r["A"].attempted \cap runs.r["B"].attempted # {}
    /\ \E x \in RunIds : runs.r[x].last_error = "IntegrityError"

(***************************************************************************)
(* funds/management/commands/import_historical_data.py: the import command *)
(* and its record-at-a-time _process_record, on the store that the history *)
(* sync writes too.  Every record is its own transaction; a sync run is    *)
(* one transaction and is taken here as one step.  A resource holds `held` *)
(* rows and reports `total`.  The rows carry no FUND_CLASSIFICATION, so    *)
(* the category of a fund is never touched.                                *)
(***************************************************************************)
LiquidMaxDigits == 5

\* Lines 242-248: to_decimal.  InvalidOperation is caught here.
to_decimal(value) ==
    IF value = Null \/ value.s = <<>> THEN Null
    ELSE IF IsNumber(value.s) THEN Dec(DigitsValue(value.s, Len(value.s)))
    ELSE Null

\* Python's `a or b` on two Decimal-or-None values
PyOr(a, b) == IF a = Null \/ a.v = 0 THEN b ELSE a

NoImportStats ==
    [total_records |-> 0, companies_created |-> 0, companies_updated |-> 0,
     funds_created |-> 0, funds_updated |-> 0, snapshots_created |-> 0,
     snapshots_updated |-> 0, errors |-> 0]

\* Lines 179-189: the company of the record.
ImportCompany(st, counted, legal_id, name) ==
    LET known == {c \in st.companies : c.legal_id = legal_id}
        row == [legal_id |-> legal_id, name |-> name]
    IN IF known = {}
       THEN [store |-> [st EXCEPT !.companies = @ \cup {row}],
             stats |-> [counted EXCEPT !.companies_created = @ + 1]]
       ELSE IF row \notin known
       THEN [store |-> [st EXCEPT !.companies = (@ \ known) \cup {row}],
             stats |-> [counted EXCEPT !.companies_updated = @ + 1]]
       ELSE [store |-> st, stats |-> counted]

\* Lines 207-234: the fund of the record.
ImportFund(st, counted, fund_id, fund_name, company) ==
    LET known == {f \in st.funds : f.fund_id = fund_id}
        fund == CHOOSE f \in known : TRUE
    IN IF known = {}
       THEN [store |-> [st EXCEPT !.funds = @ \cup
                           {[fund_id |-> fund_id, name |-> fund_name,
                             company |-> company, return_rate |-> Null,
                             total_assets |-> Null,
                             latest_report_period |-> Null]}],
             stats |-> [counted EXCEPT !.funds_created = @ + 1]]
       ELSE IF fund.name # fund_name
       THEN [store |-> [st EXCEPT !.funds =
                           (@ \ known) \cup {[fund EXCEPT !.name = fund_name]}],
             stats |-> [counted EXCEPT !.funds_updated = @ + 1]]
       ELSE [store |-> st, stats |-> counted]

\* Lines 251-277: the defaults of FundSnapshot.objects.update_or_create.
import_snapshot(fund_id, record) ==
    [fund |-> fund_id, report_period |-> record.REPORT_PERIOD.v,
     monthly_yield |-> to_decimal(record.MONTHLY_YIELD),
     avg_annual_return_3yr |-> to_decimal(record.AVG_ANNUAL_YIELD_TRAILING_3YRS),
     avg_annual_return_5yr |-> to_decimal(record.AVG_ANNUAL_YIELD_TRAILING_5YRS),
     total_assets |-> to_decimal(record.TOTAL_ASSETS),
     liquid_assets_percent |-> to_decimal(record.LIQUID_ASSETS_PERCENT)]

SnapshotFits(snapshot) ==
    /\ FitsColumn(snapshot.monthly_yield, RateMaxDigits)
    /\ FitsColumn(snapshot.avg_annual_return_3yr, RateMaxDigits)
    /\ FitsColumn(snapshot.avg_annual_return_5yr, RateMaxDigits)
    /\ FitsColumn(snapshot.total_assets, AssetsMaxDigits)
    /\ FitsColumn(snapshot.liquid_assets_percent, LiquidMaxDigits)

\* Lines 251-290: the snapshot of the record and the cached latest values
\* of its fund.
ImportSnapshot(st, counted, fund_id, record) ==
    LET snapshot == import_snapshot(fund_id, record)
        old == {x \in st.snapshots :
                   x.fund = fund_id /\ x.report_period = snapshot.report_period}
        fund == CHOOSE f \in st.funds : f.fund_id = fund_id
        newer == \/ ~Truthy(fund.latest_report_period)
                 \/ record.REPORT_PERIOD.v > fund.latest_report_period.v
        cached == [fund EXCEPT
                      !.latest_report_period = record.REPORT_PERIOD,
                      !.return_rate = PyOr(snapshot.avg_annual_return_5yr,
                                           snapshot.avg_annual_return_3yr),
                      !.total_assets = snapshot.total_assets]
    IN [store |-> [st EXCEPT
                      !.snapshots = (@ \ old) \cup {snapshot},
                      !.funds = IF newer THEN (@ \ {fund}) \cup {cached} ELSE @],
        stats |-> IF old = {}
                  THEN [counted EXCEPT !.snapshots_created = @ + 1]
                  ELSE [counted EXCEPT !.snapshots_updated = @ + 1]]

\* Command._process_record under @transaction.atomic (lines 167-290).  The
\* statistics are a dict the caller shares: what was counted before an
\* exception stays counted, what was written is rolled back.
process_record(st, counted, record) ==
    LET company_legal_id == record.MANAGING_CORPORATION_LEGAL_ID
        company_name == record.MANAGING_CORPORATION
    IN IF ~Truthy(company_legal_id) \/ ~Truthy(company_name)
       THEN [ok |-> TRUE, store |-> st, stats |-> counted]
       ELSE
         LET co == ImportCompany(st, counted, company_legal_id.s, company_name.s)
         IN IF ~Truthy(record.FUND_ID) \/ ~Truthy(record.FUND_NAME)
            THEN [ok |-> TRUE, store |-> co.store, stats |-> co.stats]
            ELSE
              LET fu == ImportFund(co.store, co.stats, record.FUND_ID.s,
                                   record.FUND_NAME.s, company_legal_id.s)
              IN IF ~Truthy(record.REPORT_PERIOD)
                 THEN [ok |-> TRUE, store |-> fu.store, stats |-> fu.stats]
                 ELSE IF ~SnapshotFits(import_snapshot(record.FUND_ID.s, record))
                 THEN [ok |-> FALSE, store |-> st, stats |-> fu.stats]
                 ELSE LET sn == ImportSnapshot(fu.store, fu.stats,
                                               record.FUND_ID.s, record)
                      IN [ok |-> TRUE, store |-> sn.store, stats |-> sn.stats]

\* Lines 119-125: the records of one page, from record i on.
RECURSIVE ProcessRecords(_, _, _, _)
ProcessRecords(st, counted, records, i) ==
    IF i > Len(records) THEN [store |-> st, stats |-> counted]
    ELSE LET out == process_record(st, counted, records[i])
         IN ProcessRecords(out.store,
                           IF out.ok THEN out.stats
                           ELSE [out.stats EXCEPT !.errors = @ + 1],
                           records, i + 1)

ImportLimits == {Null, Num(1), Num(2)}
ImportOffsets == {0, 1}
SourceChoices == {"recent", "historical", "both"}

\* Lines 59-63.
sources_to_import(source) ==
    (IF source \in {"recent", "both"} THEN <<"Recent (2016+)">> ELSE <<>>)
        \o (IF source \in {"historical", "both"}
            THEN <<"Historical (1999+)">> ELSE <<>>)

\* Line 90.
ImportBatchSize(limit) ==
    IF ~Truthy(limit) THEN BatchSize
    ELSE IF limit.v < BatchSize THEN limit.v ELSE BatchSize

\* the totals a resource holding n rows may report
ReportedTotals(n) == {n, 0, n + 2}

\* the page a resource serves for limit and offset
PageOf(held, limit, from) ==
    SubSeq(held, from + 1, IF from + limit < Len(held) THEN from + limit
                           ELSE Len(held))

\* R1 and its restated later period with another company name, an empty
\* 5-year yield and a monthly yield that is no number; a second fund whose
\* monthly yield does not fit the column; a row without a report period.
CatImport ==
    { Row(F1, P1, L1, CoA, T10, T500, Null),
      WithLiquid(With3Yr(Row(F1, P2, L1, CoB, TEmpty, T900, TBad), T20), T20),
      Row(F2, P2, L1, CoA, T20, T900, TBig),
      WithFundName(Row(F2, Null, L1, CoA, T10, T500, Null), Str("Fund B")) }

\* handle, lines 42-78: the options, --clear, the sources, the statistics.
ImportStart ==
    /\ call = NoCall
    /\ \E limit \in ImportLimits, from \in ImportOffsets, clear \in BOOLEAN,
          source \in SourceChoices :
          /\ store' = IF clear THEN [store EXCEPT !.snapshots = {}] ELSE store
          /\ call' = [fn |-> "import", limit |-> limit, offset |-> from,
                      sources |-> sources_to_import(source), si |-> 1,
                      has_more |-> FALSE, held |-> <<>>, total_available |-> 0,
                      current_offset |-> 0, batch_size |-> 0,
                      stats |-> NoImportStats, returned |-> FALSE]
    /\ UNCHANGED <<catalogue, store0, pc, dataset, all_records, offset,
                   fund_records_map, existing_snapshots, gi, ri, stats,
                   needs_rollback, last_error, result, mode, prev, runs>>

ImportIdle == call.fn = "import" /\ ~call.returned /\ ~call.has_more

\* Lines 81-90: the next source; what the resource holds and reports is
\* fixed here.
ImportSource ==
    /\ ImportIdle
    /\ call.si <= Len(call.sources)
    /\ \E held \in Datasets(catalogue) : \E total \in ReportedTotals(Len(held)) :
          call' = [call EXCEPT !.has_more = TRUE, !.held = held,
                               !.total_available = total,
                               !.current_offset = call.offset,
                               !.batch_size = ImportBatchSize(call.limit)]
    /\ UNCHANGED <<SyncVars, runs>>

\* the loop of the source is left (break, or has_more = False)
SourceLeft(c) ==
    [c EXCEPT !.has_more = FALSE, !.held = <<>>, !.total_available = 0,
              !.current_offset = 0, !.batch_size = 0, !.si = @ + 1]

\* Lines 92-151: one pass of the paging loop on an answered request.
ImportPage ==
    /\ call.fn = "import"
    /\ call.has_more
    /\ LET records == PageOf(call.held, call.batch_size, call.current_offset)
           done == ProcessRecords(store, call.stats, records, 1)
           total_records == done.stats.total_records + Len(records)
           current_offset == call.current_offset + call.batch_size
           stop == \/ Truthy(call.limit) /\ total_records >= call.limit.v
                   \/ current_offset >= call.total_available
           after == [call EXCEPT
                        !.stats = [done.stats EXCEPT
                                      !.total_records = total_records],
                        !.current_offset = current_offset]
       IN IF records = <<>>
          THEN call' = SourceLeft(call) /\ store' = store
          ELSE /\ store' = done.store
               /\ call' = IF stop \/ call.total_available = 0
                          THEN SourceLeft(after) ELSE after
    /\ UNCHANGED <<catalogue, store0, pc, dataset, all_records, offset,
                   fund_records_map, existing_snapshots, gi, ri, stats,
                   needs_rollback, last_error, result, mode, prev, runs>>

\* Lines 101-107, 146-148: the request fails or the answer is no success.
ImportRequestFails ==
    /\ call.fn = "import"
    /\ call.has_more
    /\ call' = SourceLeft(call)
    /\ UNCHANGED <<SyncVars, runs>>

\* Lines 153-165: the summary.
ImportFinish ==
    /\ ImportIdle
    /\ call.si > Len(call.sources)
    /\ call' = [call EXCEPT !.returned = TRUE]
    /\ UNCHANGED <<SyncVars, runs>>

\* A whole run of sync_gemelnet_data_with_history between two imports.
SyncRun ==
    /\ call = NoCall
    /\ \E d \in Datasets(catalogue) \ {<<>>} : store' = SyncAll(store, d).store
    /\ UNCHANGED <<catalogue, store0, pc, dataset, all_records, offset,
                   fund_records_map, existing_snapshots, gi, ri, stats,
                   needs_rollback, last_error, result, mode, prev, call, runs>>

\* every record has a fund id, a fund name, a company legal id and name and
\* a report period, and no fund has two records of one period
Comparable(records) ==
    /\ \A i \in 1..Len(records) :
          /\ Truthy(records[i].FUND_ID)
          /\ Truthy(records[i].FUND_NAME)
          /\ Truthy(records[i].MANAGING_CORPORATION_LEGAL_ID)
          /\ Truthy(records[i].MANAGING_CORPORATION)
          /\ Truthy(records[i].REPORT_PERIOD)
    /\ \A i, j \in 1..Len(records) :
          (i # j /\ records[i].FUND_ID = records[j].FUND_ID)
              => records[i].REPORT_PERIOD # records[j].REPORT_PERIOD

\* _process_record on each record in order, from an empty store
ImportAll(records) ==
    ProcessRecords(EmptyStore, NoImportStats, records, 1).store

\* The same records go through the import and through the sync, each from
\* an empty store.
BothWays ==
    /\ call = NoCall
    /\ \E d \in Datasets(catalogue) :
          /\ Comparable(d)
          /\ call' = [fn |-> "both_ways", records |-> d,
                      imported |-> ImportAll(d),
                      synced |-> SyncAll(EmptyStore, d).store,
                      returned |-> TRUE]
    /\ UNCHANGED <<SyncVars, runs>>

InitImport ==
    /\ catalogue = CatImport
    /\ SyncIdle
    /\ call = NoCall
    /\ runs = NoRuns

NextImport ==
    \/ ImportStart
    \/ ImportSource
    \/ ImportPage
    \/ ImportRequestFails
    \/ ImportFinish
    \/ Return
    \/ SyncRun
    \/ BothWays

SpecImport == InitImport /\ [][NextImport]_vars

\* C24: a command run with --limit L has processed at most L records at
\* every point, all pages and sources taken together; and its paging loop
\* ends: every pass either leaves the loop or moves the offset on by the
\* batch size, and the loop is left once the offset is past the rows held.
C24_ImportLimit ==
    /\ []((call.fn = "import" /\ Truthy(call.limit))
            => call.stats.total_records <= call.limit.v)
    /\ []((call.fn = "import" /\ call.has_more)
            => /\ call.batch_size >= 1
               /\ \/ call.current_offset = call.offset
                  \/ call.current_offset - call.batch_size < Len(call.held))
    /\ [][ (call.fn = "import" /\ call.has_more /\ call'.fn = "import"
               /\ call'.has_more)
           => call'.current_offset = call.current_offset + call.batch_size ]_vars

\* C27: no step of a sync run or of an import replaces the cached
\* latest_report_period of a fund by a smaller period.
C27_LatestPeriodMonotone ==
    [][ \A f \in store.funds :
           Truthy(f.latest_report_period) =>
               \A g \in store'.funds :
                   (g.fund_id = f.fund_id /\ Truthy(g.latest_report_period))
                       => g.latest_report_period.v >= f.latest_report_period.v ]_vars

\* the cached latest values of the funds of a store
CachedOf(st) ==
    {[fund_id |-> f.fund_id, latest_report_period |-> f.latest_report_period,
      return_rate |-> f.return_rate, total_assets |-> f.total_assets] :
        f \in st.funds}

\* C30: from an empty store and on the same complete records with one
\* record per fund and period, the record-at-a-time import and the history
\* sync leave the same companies, the same funds, the same (fund, period)
\* pairs and the same cached latest values of every fund.
C30_ImportEqualsSync ==
    call.fn = "both_ways" =>
        /\ call.imported.companies = call.synced.companies
        /\ {f.fund_id : f \in call.imported.funds}
               = {f.fund_id : f \in call.synced.funds}
        /\ SnapshotIndex(call.imported) = SnapshotIndex(call.synced)
        /\ CachedOf(call.imported) = CachedOf(call.synced)

====
